---- MODULE Spec2Model ----
(***************************************************************************)
(* Model of the OnePrompt library (src/src/index.ts): the template         *)
(* scanner, the variable resolver, the conditional processor, the          *)
(* substitution engine, the validator and the facade operations.           *)
(*                                                                         *)
(* Strings are sequences of one-character strings, so the two regular      *)
(* expressions of the source are matched character by character.  The      *)
(* literal text of a thrown message is kept as one element of the message  *)
(* sequence; names taken from the document are spliced in character by     *)
(* character, as string interpolation does.                                *)
(*                                                                         *)
(* A JavaScript value that may be undefined is a sequence of length at     *)
(* most one: << >> is undefined, << s >> is the string s.                  *)
(*                                                                         *)
(* Property names range over identifiers that are own keys only: the       *)
(* members inherited from Object.prototype ("constructor", "toString",     *)
(* ...) are outside the name universe of this model.                       *)
(***************************************************************************)
EXTENDS Integers, Sequences, FiniteSets, TLC

VARIABLES
  doc,                \* the caller's Document
  input,              \* the caller's input mapping
  op,                 \* the operation called, "idle" between calls
  source,             \* what the call was given: the Document or a markup text
  pc,                 \* the position of the call in progress
  prompt,             \* renderWithVariables: const prompt
  processedVars,      \* renderWithVariables: const processedVars
  processedTemplate,  \* renderWithVariables: let processedTemplate
  validated,          \* the call in progress has passed this.validate(prompt)
  result,             \* what the finished call returned or threw
  calls,              \* concurrent calls: the arguments and locals of each
  lastIndex           \* concurrent calls: lastIndex of each call's conditionalRegex

vars == <<doc, input, op, source, pc, prompt, processedVars, processedTemplate,
          validated, result, calls, lastIndex>>

(***************************************************************************)
(* JavaScript values                                                       *)
(***************************************************************************)
Undefined == << >>

Some(s) == << s >>

IsDefined(v) == v # Undefined

\* !v for a value that is a string or undefined
Falsy(v) == v = Undefined \/ v[1] = << >>

\* obj[key] on a plain object whose own keys are DOMAIN obj
Get(obj, key) == IF key \in DOMAIN obj THEN obj[key] ELSE Undefined

\* the object obj with obj[key] = value assigned
Put(obj, key, value) ==
  [k \in DOMAIN obj \cup {key} |-> IF k = key THEN value ELSE obj[k]]

EmptyObject == [k \in {} |-> Undefined]

(***************************************************************************)
(* Characters and strings                                                  *)
(***************************************************************************)
WhiteSpace == {" ", "\n", "\t"}

IsSpace(c) == c \in WhiteSpace

Min(S) == CHOOSE x \in S : \A y \in S : x <= y

Max(S) == CHOOSE x \in S : \A y \in S : x >= y

\* String.prototype.trim
trim(s) ==
  LET keep == {i \in 1..Len(s) : ~IsSpace(s[i])}
  IN  IF keep = {} THEN << >> ELSE SubSeq(s, Min(keep), Max(keep))

\* s.slice(2, -2)
slice2(s) == SubSeq(s, 3, Len(s) - 2)

\* the literal lit occurs in T at position i
LitAt(T, i, lit) ==
  /\ i + Len(lit) - 1 <= Len(T)
  /\ \A k \in 1..Len(lit) : T[i + k - 1] = lit[k]

\* the first position >= i of T holding a character of the set C, Len(T)+1 if none
FirstIn(T, i, C) ==
  LET hits == {k \in i..Len(T) : T[k] \in C}
  IN  IF hits = {} THEN Len(T) + 1 ELSE Min(hits)

\* the first position >= i of T holding a character outside C, Len(T)+1 if none
FirstNotIn(T, i, C) ==
  LET hits == {k \in i..Len(T) : T[k] \notin C}
  IN  IF hits = {} THEN Len(T) + 1 ELSE Min(hits)

RECURSIVE Concat(_)
Concat(ss) == IF ss = << >> THEN << >> ELSE Head(ss) \o Concat(Tail(ss))

(***************************************************************************)
(* The token pattern /\{\{([^}]+)\}\}/g                                    *)
(***************************************************************************)
\* the last position of the match of the token pattern that starts at i, 0 if
\* there is none: "{{", one or more characters other than "}", "}}"
TokenEnd(T, i) ==
  IF ~LitAt(T, i, <<"{", "{">>) THEN 0
  ELSE LET j == FirstIn(T, i + 2, {"}"})
       IN  IF j > i + 2 /\ LitAt(T, j, <<"}", "}">>) THEN j + 1 ELSE 0

\* the least member of a set of positions, 0 for the empty set
FirstOf(S) == IF S = {} THEN 0 ELSE Min(S)

\* the scan of the global token pattern from lastIndex i: the first position
\* from i on where the pattern matches, 0 if there is none
TokenStart(T, i) == FirstOf({j \in i..Len(T) : TokenEnd(T, j) > 0})

\* the matches of the global token pattern found from lastIndex i on, each
\* [from, to], leftmost first and not overlapping; j is the start of the next
\* match and e its end
RECURSIVE TokenMatches(_, _)
TokenMatchesAt(T, j, e) == <<[from |-> j, to |-> e]>> \o TokenMatches(T, e + 1)

TokenMatchesFrom(T, j) == IF j = 0 THEN << >> ELSE TokenMatchesAt(T, j, TokenEnd(T, j))

TokenMatches(T, i) == TokenMatchesFrom(T, TokenStart(T, i))

\* template.match(regex) || []: the matched texts
matchTexts(template, ms) ==
  [k \in 1..Len(ms) |-> SubSeq(template, ms[k].from, ms[k].to)]

\* the scanner with the inner text of a match left untrimmed
extractTemplateVariables_untrimmed(template) ==
  matchTexts(template, [k \in 1..Len(TokenMatches(template, 1)) |->
                          [from |-> TokenMatches(template, 1)[k].from + 2,
                           to   |-> TokenMatches(template, 1)[k].to - 2]])

\* matches.map((match) => match.slice(2, -2).trim())
mapSliceTrim(matches) == [k \in 1..Len(matches) |-> trim(slice2(matches[k]))]

\* OnePromptUtils.extractTemplateVariables
extractTemplateVariables(template) ==
  mapSliceTrim(matchTexts(template, TokenMatches(template, 1)))

\* the callback with ?? in place of ||: an empty value replaces the token
substituteCallback_nullish(match, group, variables) ==
  LET value == Get(variables, trim(group))
  IN  IF value = Undefined THEN match ELSE value[1]

\* the replacement callback of substituteTemplateVariables: (match, varName) =>
\* variables[varName.trim()] || match
substituteCallback(match, group, variables) ==
  LET varName == trim(group)
      value   == Get(variables, varName)
  IN  IF Falsy(value) THEN match ELSE value[1]

\* template.replace(tokenPattern, callback) from position i on: the text up to
\* the next match at j, what the callback gives for the match j..e, and the rest
RECURSIVE substituteFrom(_, _, _)
substituteAt(T, i, j, e, variables) ==
  SubSeq(T, i, j - 1)
    \o substituteCallback(SubSeq(T, j, e), SubSeq(T, j + 2, e - 2), variables)
    \o substituteFrom(T, e + 1, variables)

substituteNext(T, i, j, variables) ==
  IF j = 0 THEN SubSeq(T, i, Len(T))
  ELSE substituteAt(T, i, j, TokenEnd(T, j), variables)

substituteFrom(T, i, variables) == substituteNext(T, i, TokenStart(T, i), variables)

\* the replacement applied again to its own output, until the tokens written in
\* an inserted value have been replaced too
substituteTemplateVariables_rescanned(template, variables) ==
  substituteFrom(substituteFrom(template, 1, variables), 1, variables)

\* OnePromptUtils.substituteTemplateVariables
substituteTemplateVariables(template, variables) ==
  substituteFrom(template, 1, variables)

(***************************************************************************)
(* Results of a call: a returned value or a thrown error                   *)
(***************************************************************************)
Return(v) == [kind |-> "return", value |-> v]

Throw(name, message) == [kind |-> "throw", name |-> name, message |-> message]

Returned(r) == r.kind = "return"

Thrown(r) == r.kind = "throw"

\* new Error(message)
Error(message) == Throw("Error", message)

\* the wrapper without the message of the error it caught
OnePromptError_causeDropped(prefix, error) == Throw("OnePromptError", <<prefix>>)

\* new OnePromptError(`${prefix}${error.message}`)
OnePromptError(prefix, error) == Throw("OnePromptError", <<prefix>> \o error.message)

\* try { r } catch (error) { throw new OnePromptError(prefix + error.message) }
Catch(prefix, r) == IF Thrown(r) THEN OnePromptError(prefix, r) ELSE r

\* first; then: what follows a call is reached only when the call returns
Then(first, then) == IF Thrown(first) THEN first ELSE then

(***************************************************************************)
(* OnePromptUtils.validateAndProcessVariables                              *)
(***************************************************************************)
\* the loop with a truthiness test, if (inputVars[name]), in place of the key test
RECURSIVE processVariablesFrom_truthy(_, _, _, _)
processVariablesFrom_truthy(promptVars, inputVars, k, processed) ==
  IF k > Len(promptVars) THEN Return(processed)
  ELSE LET v == promptVars[k]
       IN  IF ~Falsy(Get(inputVars, v.name))
           THEN processVariablesFrom_truthy(promptVars, inputVars, k + 1,
                                            Put(processed, v.name, inputVars[v.name]))
           ELSE IF v.required
           THEN Error(<<"Missing required variable: ">> \o v.name)
           ELSE processVariablesFrom_truthy(promptVars, inputVars, k + 1,
                                            Put(processed, v.name, v.default))

\* the for loop from the k-th declared variable on, with processed built so far
RECURSIVE processVariablesFrom(_, _, _, _)
processVariablesFrom(promptVars, inputVars, k, processed) ==
  IF k > Len(promptVars) THEN Return(processed)
  ELSE LET v == promptVars[k]
       IN  IF v.name \in DOMAIN inputVars
           THEN processVariablesFrom(promptVars, inputVars, k + 1,
                                     Put(processed, v.name, inputVars[v.name]))
           ELSE IF v.required
           THEN Error(<<"Missing required variable: ">> \o v.name)
           ELSE processVariablesFrom(promptVars, inputVars, k + 1,
                                     Put(processed, v.name, v.default))

\* the resolver with processed starting as a copy of the input, { ...inputVars }
validateAndProcessVariables_spread(promptVars, inputVars) ==
  processVariablesFrom(promptVars, inputVars, 1, inputVars)

\* the resolver with the loop running from the last declared variable to the first
validateAndProcessVariables_backwards(promptVars, inputVars) ==
  processVariablesFrom([k \in 1..Len(promptVars) |->
                          promptVars[Len(promptVars) + 1 - k]],
                       inputVars, 1, EmptyObject)

validateAndProcessVariables(promptVars, inputVars) ==
  processVariablesFrom(promptVars, inputVars, 1, EmptyObject)

(***************************************************************************)
(* The directive pattern                                                   *)
(*   /<oneprompt:if\s+var="([^"]+)"\s+equals="([^"]+)"\s+show="([^"]+)"    *)
(*    (?:\s+else="([^"]+)")?\s*\/>/g                                       *)
(***************************************************************************)
Quote == "\""

LitOpen == <<"<", "o", "n", "e", "p", "r", "o", "m", "p", "t", ":", "i", "f">>

LitVar == <<"v", "a", "r", "=", Quote>>

LitEquals == <<"e", "q", "u", "a", "l", "s", "=", Quote>>

LitShow == <<"s", "h", "o", "w", "=", Quote>>

LitElse == <<"e", "l", "s", "e", "=", Quote>>

LitClose == <<"/", ">">>

NoAttr(p) == [ok |-> FALSE, val |-> << >>, next |-> p]

\* ([^"]+) " matched at b, q being the first quote from b on
AttrValue(T, p, b, q) ==
  IF q > b /\ q <= Len(T)
  THEN [ok |-> TRUE, val |-> SubSeq(T, b, q - 1), next |-> q + 1]
  ELSE NoAttr(p)

\* lit ([^"]+) " matched at a, the first position after the whitespace from p on
AttrAfter(T, p, lit, a) ==
  IF a > p /\ LitAt(T, a, lit)
  THEN AttrValue(T, p, a + Len(lit), FirstIn(T, a + Len(lit), {Quote}))
  ELSE NoAttr(p)

\* \s+ lit ([^"]+) " matched at p: the captured value and the position after it
AttrAt(T, p, lit) == AttrAfter(T, p, lit, FirstNotIn(T, p, WhiteSpace))

CloseFrom(T, z) == IF LitAt(T, z, LitClose) THEN z + 1 ELSE 0

\* \s* \/> matched at p: the last position of the match, 0 if none
CloseAt(T, p) == CloseFrom(T, FirstNotIn(T, p, WhiteSpace))

NoDirective ==
  [to |-> 0, var |-> << >>, equals |-> << >>, show |-> << >>, else |-> Undefined]

Matched(to, v, q, s, else) ==
  [to |-> to, var |-> v.val, equals |-> q.val, show |-> s.val, else |-> else]

\* the else group given up: \s* \/> right after the show attribute, ending at to
WithoutElse(v, q, s, to) ==
  IF to > 0 THEN Matched(to, v, q, s, Undefined) ELSE NoDirective

\* the optional else group e tried first, the close after it ending at to
WithElse(T, v, q, s, e, to) ==
  IF e.ok /\ to > 0 THEN Matched(to, v, q, s, Some(e.val))
  ELSE WithoutElse(v, q, s, CloseAt(T, s.next))

AfterElse(T, v, q, s, e) == WithElse(T, v, q, s, e, CloseAt(T, e.next))

AfterShow(T, v, q, s) ==
  IF ~s.ok THEN NoDirective ELSE AfterElse(T, v, q, s, AttrAt(T, s.next, LitElse))

AfterEquals(T, v, q) ==
  IF ~q.ok THEN NoDirective ELSE AfterShow(T, v, q, AttrAt(T, q.next, LitShow))

AfterVar(T, v) ==
  IF ~v.ok THEN NoDirective ELSE AfterEquals(T, v, AttrAt(T, v.next, LitEquals))

\* the match of the directive pattern that starts at i (to = 0 if there is none):
\* the attributes var, equals and show in this order, then the optional else
DirectiveAt(T, i) ==
  IF ~LitAt(T, i, LitOpen) THEN NoDirective
  ELSE AfterVar(T, AttrAt(T, i + Len(LitOpen), LitVar))

\* the scan of the global directive pattern from lastIndex i: the first
\* position from i on where the pattern matches, 0 if there is none
DirectiveStart(T, i) == FirstOf({j \in i..Len(T) : DirectiveAt(T, j).to > 0})

\* the matches of the global directive pattern found from lastIndex i on; j is
\* the start of the next match and m the match
RECURSIVE DirectiveMatches(_, _)
DirectiveMatchesAt(T, j, m) ==
  <<[from |-> j] @@ m>> \o DirectiveMatches(T, m.to + 1)

DirectiveMatchesFrom(T, j) ==
  IF j = 0 THEN << >> ELSE DirectiveMatchesAt(T, j, DirectiveAt(T, j))

DirectiveMatches(T, i) == DirectiveMatchesFrom(T, DirectiveStart(T, i))

(***************************************************************************)
(* OnePromptUtils.processConditionals                                      *)
(***************************************************************************)
HasPart(parts, name) == \E k \in 1..Len(parts) : parts[k].name = name

\* new Map(parts.map((p) => [p.name, p.content])).get(name): the last entry of
\* a name wins, an unknown name gives undefined
partsMapGet(parts, name) ==
  IF ~HasPart(parts, name) THEN Undefined
  ELSE Some(parts[Max({k \in 1..Len(parts) : parts[k].name = name})].content)

\* the callback with the two branches of the ternary exchanged
conditionalCallback_swapped(m, variables, parts) ==
  LET varValue   == Get(variables, m.var)
      partToShow == IF varValue = Some(m.equals) THEN m.else ELSE Some(m.show)
  IN  IF Falsy(partToShow) THEN << >>
      ELSE LET content == partsMapGet(parts, partToShow[1])
           IN  IF Falsy(content) THEN << >> ELSE content[1]

\* the replacement callback of processConditionals
conditionalCallback(m, variables, parts) ==
  LET varValue   == Get(variables, m.var)
      partToShow == IF varValue = Some(m.equals) THEN Some(m.show) ELSE m.else
  IN  IF Falsy(partToShow) THEN << >>
      ELSE LET content == partsMapGet(parts, partToShow[1])
           IN  IF Falsy(content) THEN << >> ELSE content[1]

\* template.replace(directivePattern, callback) from position i on: the text up
\* to the next match at j, what the callback gives for the match m, and the rest
RECURSIVE conditionalsFrom(_, _, _, _)
conditionalsAt(T, i, j, m, variables, parts) ==
  SubSeq(T, i, j - 1)
    \o conditionalCallback(m, variables, parts)
    \o conditionalsFrom(T, m.to + 1, variables, parts)

conditionalsNext(T, i, j, variables, parts) ==
  IF j = 0 THEN SubSeq(T, i, Len(T))
  ELSE conditionalsAt(T, i, j, DirectiveAt(T, j), variables, parts)

conditionalsFrom(T, i, variables, parts) ==
  conditionalsNext(T, i, DirectiveStart(T, i), variables, parts)

\* the replacement applied again to its own output, until content inserted from
\* a part has been evaluated too
processConditionals_rescanned(template, variables, parts) ==
  conditionalsFrom(conditionalsFrom(template, 1, variables, parts), 1,
                   variables, parts)

processConditionals(template, variables, parts) ==
  conditionalsFrom(template, 1, variables, parts)

(***************************************************************************)
(* OnePrompt.validate                                                      *)
(***************************************************************************)
\* declaredVars.has(name), prompt.variables.some((v) => v.name === name)
IsDeclared(variables, name) == \E k \in 1..Len(variables) : variables[k].name = name

\* the loop without the test of the else part
RECURSIVE validateConditionalsFrom_noElse(_, _, _)
validateConditionalsFrom_noElse(p, ms, k) ==
  IF k > Len(ms) THEN Return(Undefined)
  ELSE LET m == ms[k]
       IN  IF ~IsDeclared(p.variables, m.var)
           THEN Error(<<"Conditional references undefined variable \"">>
                        \o m.var \o <<Quote>>)
           ELSE IF ~HasPart(p.parts, m.show)
           THEN Error(<<"Conditional references undefined part \"">>
                        \o m.show \o <<Quote>>)
           ELSE validateConditionalsFrom_noElse(p, ms, k + 1)

\* the loop without the test of the show part
RECURSIVE validateConditionalsFrom_showUnchecked(_, _, _)
validateConditionalsFrom_showUnchecked(p, ms, k) ==
  IF k > Len(ms) THEN Return(Undefined)
  ELSE LET m == ms[k]
       IN  IF ~IsDeclared(p.variables, m.var)
           THEN Error(<<"Conditional references undefined variable \"">>
                        \o m.var \o <<Quote>>)
           ELSE IF IsDefined(m.else) /\ ~HasPart(p.parts, m.else[1])
           THEN Error(<<"Conditional references undefined part \"">>
                        \o m.else[1] \o <<Quote>>)
           ELSE validateConditionalsFrom_showUnchecked(p, ms, k + 1)

\* the while loop over the directive matches ms from the k-th on: per directive
\* the var, then the show part, then the else part
RECURSIVE validateConditionalsFrom(_, _, _)
validateConditionalsFrom(p, ms, k) ==
  IF k > Len(ms) THEN Return(Undefined)
  ELSE LET m == ms[k]
       IN  IF ~IsDeclared(p.variables, m.var)
           THEN Error(<<"Conditional references undefined variable \"">>
                        \o m.var \o <<Quote>>)
           ELSE IF ~HasPart(p.parts, m.show)
           THEN Error(<<"Conditional references undefined part \"">>
                        \o m.show \o <<Quote>>)
           ELSE IF IsDefined(m.else) /\ ~HasPart(p.parts, m.else[1])
           THEN Error(<<"Conditional references undefined part \"">>
                        \o m.else[1] \o <<Quote>>)
           ELSE validateConditionalsFrom(p, ms, k + 1)

\* the directives checked before the defaults of the optional variables
checkDefaults_afterDirectives(p, noDefault) ==
  IF Thrown(validateConditionalsFrom(p, DirectiveMatches(p.template, 1), 1))
  THEN validateConditionalsFrom(p, DirectiveMatches(p.template, 1), 1)
  ELSE IF noDefault # << >>
  THEN Error(<<"Optional variable \"">> \o Head(noDefault).name
               \o <<"\" must have a default value">>)
  ELSE Return(Undefined)

\* lines 297-303, then the loop over the directives
checkDefaults(p, noDefault) ==
  IF noDefault # << >>
  THEN Error(<<"Optional variable \"">> \o Head(noDefault).name
               \o <<"\" must have a default value">>)
  ELSE validateConditionalsFrom(p, DirectiveMatches(p.template, 1), 1)

\* the variables without a default that are not required
WithoutDefault(p) ==
  SelectSeq(p.variables, LAMBDA v : ~v.required /\ v.default = Undefined)

\* lines 289-295, then the checks that follow
checkUndeclared(p, undeclared) ==
  IF undeclared # << >>
  THEN Error(<<"Variable \"">> \o Head(undeclared)
               \o <<"\" used in template but not declared">>)
  ELSE checkDefaults(p, WithoutDefault(p))

\* the checks with one more: a declared variable the template never uses is refused
checkUsed_unusedRefused(p, usedVars) ==
  IF SelectSeq(usedVars, LAMBDA n : ~IsDeclared(p.variables, n)) # << >>
  THEN Error(<<"Variable \"">>
               \o Head(SelectSeq(usedVars, LAMBDA n : ~IsDeclared(p.variables, n)))
               \o <<"\" used in template but not declared">>)
  ELSE IF \E j \in 1..Len(p.variables) :
            \A k \in 1..Len(usedVars) : usedVars[k] # p.variables[j].name
  THEN Error(<<"A declared variable is not used in template">>)
  ELSE checkDefaults(p, WithoutDefault(p))

\* lines 286-295: the used names that are not declared, in their order
checkUsed(p, usedVars) ==
  checkUndeclared(p, SelectSeq(usedVars, LAMBDA n : ~IsDeclared(p.variables, n)))

\* the body of the try block of validate
validateChecks(p) ==
  IF Falsy(p.metadata.title)
  THEN Error(<<"Title is required in metadata">>)
  ELSE checkUsed(p, extractTemplateVariables(p.template))

validate(p) == Catch("Validation failed: ", validateChecks(p))

(***************************************************************************)
(* The markup collaborator (fast-xml-parser).  A markup text is held as    *)
(* the outcome of decoding it: the decoded tree, or the error the parser   *)
(* throws.  A built text is held as the tree it was built from.            *)
(***************************************************************************)
\* the text entry of an element as the parser returns it: an element whose
\* text is empty has none (parseFromXml reads "#text" of a <var required="true"/>
\* as undefined and supplies the "" of an empty part itself)
decodedText(text) == IF text = Some(<< >>) THEN Undefined ELSE text

\* the tree the parser returns for the text the builder wrote for xmlObj
decodeBuilt(xmlObj) ==
  [metadata  |-> Some(xmlObj.metadata),
   variables |-> [k \in 1..Len(xmlObj.variables) |->
                    [name     |-> xmlObj.variables[k].name,
                     required |-> xmlObj.variables[k].required,
                     text     |-> decodedText(xmlObj.variables[k].text)]],
   part      |-> [k \in 1..Len(xmlObj.part) |->
                    [name |-> xmlObj.part[k].name,
                     text |-> decodedText(xmlObj.part[k].text)]],
   template  |-> xmlObj.template]

\* xmlParser.parse(xml)
xmlParserParse(xml) ==
  IF "built" \in DOMAIN xml THEN Return(decodeBuilt(xml.built)) ELSE xml.decoded

\* xmlBuilder.build(xmlObj)
xmlBuilderBuild(xmlObj) == [built |-> xmlObj]

\* the built text begins with an XML declaration: the builder writes one only
\* for a "?xml" entry of the object it is given
HasProlog(xml) == "?xml" \in DOMAIN xml.built

(***************************************************************************)
(* OnePrompt.parseFromXml, OnePrompt.convertToXml                          *)
(***************************************************************************)
\* the Prompt that parseFromXml builds from the decoded tree
promptOfData(promptData) ==
  [metadata  |-> [title |-> promptData.metadata[1].title],
   variables |-> [k \in 1..Len(promptData.variables) |->
                    [name     |-> promptData.variables[k].name,
                     required |-> (promptData.variables[k].required = "true"),
                     default  |-> promptData.variables[k].text]],
   template  |-> promptData.template,
   parts     |-> [k \in 1..Len(promptData.part) |->
                    [name    |-> promptData.part[k].name,
                     content |-> IF Falsy(promptData.part[k].text) THEN << >>
                                 ELSE promptData.part[k].text[1]]]]

\* lines 391-392: this.validate(prompt); return prompt
validateAndReturn(p) == Then(validate(p), Return(p))

\* lines 358-392, promptData being what the parser returned
parseDecoded(parsed) ==
  IF Thrown(parsed) THEN parsed
  ELSE IF parsed.value.metadata = Undefined
  THEN Throw("TypeError", <<"Cannot read properties of undefined (reading 'title')">>)
  ELSE validateAndReturn(promptOfData(parsed.value))

parseFromXml(xml) == Catch("Parse failed: ", parseDecoded(xmlParserParse(xml)))

\* the object convertToXml hands to the builder
xmlObjOf(p) ==
  [metadata  |-> p.metadata,
   variables |-> [k \in 1..Len(p.variables) |->
                    [name     |-> p.variables[k].name,
                     required |-> IF p.variables[k].required THEN "true" ELSE "false",
                     text     |-> p.variables[k].default]],
   part      |-> [k \in 1..Len(p.parts) |->
                    [name |-> p.parts[k].name, text |-> Some(p.parts[k].content)]],
   template  |-> p.template]

\* the conversion without the call of validate
convertToXml_unvalidated(p) == Return(xmlBuilderBuild(xmlObjOf(p)))

convertToXml(p) ==
  Catch("Conversion to XML failed: ",
        Then(validate(p), Return(xmlBuilderBuild(xmlObjOf(p)))))

(***************************************************************************)
(* The inputs the operations are applied to                                *)
(***************************************************************************)
MaxVars == 2

MaxParts == 2

MaxPieces == 2

MaxScanPieces == 3

\* all sequences of at most n elements of S
SeqsUpTo(S, n) == UNION {[1..k -> S] : k \in 0..n}

\* the texts made of at most n pieces of the set P
TextsOf(P, n) == {Concat(ps) : ps \in SeqsUpTo(P, n)}

\* the text of a directive, its attributes separated by sep and closed after gap
DirectiveText(var, equals, show, else, sep, gap) ==
  LitOpen \o sep \o LitVar \o var \o <<Quote>>
          \o sep \o LitEquals \o equals \o <<Quote>>
          \o sep \o LitShow \o show \o <<Quote>>
          \o (IF else = Undefined THEN << >>
              ELSE sep \o LitElse \o else[1] \o <<Quote>>)
          \o gap \o LitClose

Directive(var, equals, show, else) ==
  DirectiveText(var, equals, show, else, <<" ">>, <<" ">>)

Variable(name, required, default) ==
  [name |-> name, required |-> required, default |-> default]

Part(name, content) == [name |-> name, content |-> content]

Prompt(title, variables, template, parts) ==
  [metadata |-> [title |-> title], variables |-> variables,
   template |-> template, parts |-> parts]

TokenX == <<"{", "{", "x", "}", "}">>

TokenY == <<"{", "{", " ", "y", " ", "}", "}">>

\* the input mappings: x absent, empty or given; y absent or given
Inputs ==
  {EmptyObject} \cup
  {[n \in {<<"x">>} |-> Some(v)] : v \in {<< >>, <<"a">>, <<"b">>}} \cup
  {[n \in {<<"x">>, <<"y">>} |-> Some(<<"a">>)]}

Titles == {Some(<< >>), Some(<<"T">>)}

VariableChoices ==
  {Variable(<<"x">>, TRUE, Undefined),
   Variable(<<"y">>, FALSE, Some(<< >>)),
   Variable(<<"y">>, FALSE, Undefined)}

PartChoices == {Part(<<"p">>, <<"P">>), Part(<<"q">>, TokenX)}

TemplatePieces ==
  {<<" ">> \o TokenY \o <<"\n">>,
   Directive(<<"x">>, <<"a">>, <<"p">>, Undefined),
   Directive(<<"x">>, <<"a">>, <<"p">>, Some(<<"q">>)),
   Directive(<<"y">>, <<"a">>, <<"q">>, Some(<<"r">>))}

\* the Documents validate is applied to
Prompts ==
  {Prompt(t, vs, tp, ps) :
     t \in Titles, vs \in SeqsUpTo(VariableChoices, MaxVars),
     tp \in TextsOf(TemplatePieces, MaxPieces),
     ps \in SeqsUpTo(PartChoices, MaxParts)}

\* the pieces of the templates the scanner and the substitution engine read
ScanPieces ==
  {<<"{">>, <<"}">>, <<"{", "{">>, <<"}", "}">>, <<" ">>, <<"x">>, TokenX, TokenY}

ScanTemplates == TextsOf(ScanPieces, MaxScanPieces)

(***************************************************************************)
(* The caller: a Document and an input mapping, and the call in progress   *)
(***************************************************************************)
NoResult == [kind |-> "none"]

NoCall ==
  /\ op = "idle"
  /\ source = "none"
  /\ pc = "idle"
  /\ prompt = Undefined
  /\ processedVars = Undefined
  /\ processedTemplate = Undefined
  /\ validated = FALSE
  /\ result = NoResult

\* no call in progress, and no concurrent calls
Idle ==
  /\ NoCall
  /\ calls = << >>
  /\ lastIndex = << >>

\* a call that runs to its end in one step and leaves its result
Call(name, src, r) ==
  /\ op = "idle"
  /\ op' = name
  /\ source' = src
  /\ pc' = "done"
  /\ result' = r
  /\ UNCHANGED <<doc, input, prompt, processedVars, processedTemplate, validated>>
  /\ UNCHANGED <<calls, lastIndex>>

\* the caller takes the result; the Document and the input stay with the caller
Finish ==
  /\ pc = "done"
  /\ op' = "idle"
  /\ source' = "none"
  /\ pc' = "idle"
  /\ prompt' = Undefined
  /\ processedVars' = Undefined
  /\ processedTemplate' = Undefined
  /\ validated' = FALSE
  /\ result' = NoResult
  /\ UNCHANGED <<doc, input>>
  /\ UNCHANGED <<calls, lastIndex>>

\* OnePromptUtils.extractTemplateVariables(doc.template)
Extract ==
  Call("extractTemplateVariables", "prompt",
       Return(extractTemplateVariables(doc.template)))

\* OnePromptUtils.substituteTemplateVariables(doc.template, input)
Substitute ==
  Call("substituteTemplateVariables", "prompt",
       Return(substituteTemplateVariables(doc.template, input)))

\* OnePromptUtils.validateAndProcessVariables(doc.variables, input)
Resolve ==
  Call("validateAndProcessVariables", "prompt",
       validateAndProcessVariables(doc.variables, input))

\* OnePromptUtils.processConditionals(doc.template, input, doc.parts)
ProcessConditionals ==
  Call("processConditionals", "prompt",
       Return(processConditionals(doc.template, input, doc.parts)))

\* OnePrompt.validate(doc)
Validate == Call("validate", "prompt", validate(doc))

(***************************************************************************)
(* The scanner and the substitution engine on their own                    *)
(***************************************************************************)
InitScan ==
  /\ doc \in {Prompt(Some(<<"T">>), << >>, tp, << >>) : tp \in ScanTemplates}
  /\ input \in Inputs
  /\ Idle

NextScan == Extract \/ Substitute \/ Finish

SpecScan == InitScan /\ [][NextScan]_vars

(***************************************************************************)
(* What the specification says of tokens, stated without the scanner       *)
(***************************************************************************)
\* T[i..j] is a token: "{{", a non-empty inner text without "}", "}}"
IsToken(T, i, j) ==
  /\ 1 <= i /\ i + 4 <= j /\ j <= Len(T)
  /\ T[i] = "{" /\ T[i + 1] = "{" /\ T[j - 1] = "}" /\ T[j] = "}"
  /\ \A k \in (i + 2)..(j - 2) : T[k] # "}"

TokensOf(T) == {t \in (1..Len(T)) \X (1..Len(T)) : IsToken(T, t[1], t[2])}

\* the tokens read from left to right: no two overlap, and every token of T
\* starts inside one that is read
TokensRead(T) ==
  CHOOSE S \in SUBSET TokensOf(T) :
    /\ \A t \in S : \A u \in S : t # u => (t[2] < u[1] \/ u[2] < t[1])
    /\ \A t \in TokensOf(T) : \E u \in S : u[1] <= t[1] /\ t[1] <= u[2]

\* the members of a set of disjoint spans in the order of their position
InOrder(S) ==
  [k \in 1..Cardinality(S) |->
     CHOOSE t \in S : Cardinality({u \in S : u[1] < t[1]}) = k - 1]

\* t is s without its leading and trailing whitespace
IsTrimOf(t, s) ==
  \E a \in 0..Len(s) :
    /\ a + Len(t) <= Len(s)
    /\ SubSeq(s, a + 1, a + Len(t)) = t
    /\ \A k \in 1..a : IsSpace(s[k])
    /\ \A k \in (a + Len(t) + 1)..Len(s) : IsSpace(s[k])
    /\ (t # << >> => ~IsSpace(t[1]) /\ ~IsSpace(t[Len(t)]))

\* the name a token refers to
NameOf(T, t) ==
  LET inner == SubSeq(T, t[1] + 2, t[2] - 2)
  IN  CHOOSE n \in {SubSeq(inner, a, b) : a \in 1..(Len(inner) + 1), b \in 0..Len(inner)} :
        IsTrimOf(n, inner)

\* C8: extractTemplateVariables(T) has one entry per token of T, in the order of
\* the tokens from left to right and one per occurrence, each the inner text of
\* its token without the surrounding whitespace; it is empty when T has no token.
C8_ExtractListsTokens ==
  op = "extractTemplateVariables" =>
    LET T     == doc.template
        toks  == InOrder(TokensRead(T))
        names == result.value
    IN  /\ Returned(result)
        /\ Len(names) = Len(toks)
        /\ \A k \in 1..Len(toks) :
             IsTrimOf(names[k], SubSeq(T, toks[k][1] + 2, toks[k][2] - 2))
        /\ (TokensOf(T) = {} => names = << >>)

\* a template naming y twice, with whitespace inside the braces, has been scanned
C8_Witness ==
  /\ op = "extractTemplateVariables"
  /\ doc.template = TokenY \o <<"x">> \o TokenY
  /\ result.value = << <<"y">>, <<"y">> >>

\* what the specification says the k-th token read is replaced by
ExpectedValue(T, t, variables) ==
  LET name == NameOf(T, t)
  IN  IF name \in DOMAIN variables /\ variables[name] \notin {Undefined, Some(<< >>)}
      THEN variables[name][1]
      ELSE SubSeq(T, t[1], t[2])

\* the text between the tokens read, each token replaced by its expected value
ExpectedSubstitution(T, variables) ==
  LET toks == InOrder(TokensRead(T))
      n    == Len(toks)
      gap(k) == SubSeq(T, IF k = 1 THEN 1 ELSE toks[k - 1][2] + 1, toks[k][1] - 1)
      rest == SubSeq(T, IF n = 0 THEN 1 ELSE toks[n][2] + 1, Len(T))
  IN  Concat([k \in 1..n |-> gap(k) \o ExpectedValue(T, toks[k], variables)]) \o rest

\* C5: substituteTemplateVariables replaces every occurrence of a token by the value
\* of its trimmed name when that value is present and not empty, leaves the token
\* text as it is when the value is the empty string or the name is absent, and
\* keeps the text outside the tokens.
C5_SubstituteTokens ==
  op = "substituteTemplateVariables" =>
    /\ Returned(result)
    /\ result.value = ExpectedSubstitution(doc.template, input)

\* both occurrences of {{x}} are replaced and the token of the absent y is kept
C5_Witness ==
  /\ op = "substituteTemplateVariables"
  /\ doc.template = TokenX \o TokenY \o TokenX
  /\ input = [n \in {<<"x">>} |-> Some(<<"a">>)]
  /\ result.value = <<"a">> \o TokenY \o <<"a">>

(***************************************************************************)
(* The variable resolver on its own                                        *)
(***************************************************************************)
ResolveChoices ==
  {Variable(<<"x">>, TRUE, Undefined),
   Variable(<<"x">>, FALSE, Some(<<"a">>)),
   Variable(<<"x">>, FALSE, Some(<<"b">>)),
   Variable(<<"y">>, TRUE, Undefined),
   Variable(<<"y">>, FALSE, Some(<< >>)),
   Variable(<<"y">>, FALSE, Undefined)}

InitResolve ==
  /\ doc \in {Prompt(Some(<<"T">>), vs, << >>, << >>) :
                vs \in SeqsUpTo(ResolveChoices, MaxVars)}
  /\ input \in Inputs
  /\ Idle

NextResolve == Resolve \/ Finish

SpecResolve == InitResolve /\ [][NextResolve]_vars

\* the names of a sequence of variables or parts are pairwise distinct
DistinctNames(xs) ==
  \A j \in 1..Len(xs) : \A k \in 1..Len(xs) : xs[j].name = xs[k].name => j = k

\* the names of a sequence of variables or parts
NamesOf(xs) == {xs[k].name : k \in 1..Len(xs)}

\* the k-th declared variable is required and not a key of the input
MissingRequired(variables, inputVars, k) ==
  variables[k].required /\ variables[k].name \notin DOMAIN inputVars

\* C4: the resolver goes by the presence of the key: a supplied value is the
\* resolved value, the empty string included; a required variable that is absent
\* makes resolution fail with a message naming such a variable; an optional
\* variable that is absent resolves to its declared default.
C4_ResolveByKeyPresence ==
  op = "validateAndProcessVariables" =>
    LET vs      == doc.variables
        missing == {k \in 1..Len(vs) : MissingRequired(vs, input, k)}
    IN  /\ Returned(result) <=> missing = {}
        /\ Thrown(result) =>
             \E k \in missing :
               result.message = <<"Missing required variable: ">> \o vs[k].name
        /\ Returned(result) =>
             \A k \in 1..Len(vs) :
               /\ vs[k].name \in DOMAIN input =>
                    Get(result.value, vs[k].name) = input[vs[k].name]
               /\ (vs[k].name \notin DOMAIN input /\ DistinctNames(vs)) =>
                    /\ vs[k].name \in DOMAIN result.value
                    /\ result.value[vs[k].name] = vs[k].default

\* an empty string supplied for x is kept although x declares the default "a",
\* and the absent y gets its default
C4_Witness ==
  /\ op = "validateAndProcessVariables"
  /\ doc.variables = <<Variable(<<"x">>, FALSE, Some(<<"a">>)),
                       Variable(<<"y">>, FALSE, Some(<< >>))>>
  /\ input = [n \in {<<"x">>} |-> Some(<< >>)]
  /\ Returned(result)
  /\ result.value[<<"x">>] = Some(<< >>)
  /\ result.value[<<"y">>] = Some(<< >>)

\* C12: when the resolver succeeds, the keys of its result are exactly the
\* declared variable names; a key of the input that is not declared is neither
\* copied into the result nor a failure.
C12_ResultKeysAreDeclaredNames ==
  (op = "validateAndProcessVariables" /\ Returned(result)) =>
    DOMAIN result.value = {doc.variables[k].name : k \in 1..Len(doc.variables)}

\* the input has the key y, which is not declared: the resolver succeeds and
\* its result has the key x only
C12_Witness ==
  /\ op = "validateAndProcessVariables"
  /\ doc.variables = <<Variable(<<"x">>, TRUE, Undefined)>>
  /\ input = [n \in {<<"x">>, <<"y">>} |-> Some(<<"a">>)]
  /\ Returned(result)
  /\ DOMAIN result.value = {<<"x">>}

\* C18: when several required variables are missing, the resolver fails naming
\* the first of them in declaration order, and none that is declared after it.
C18_FirstMissingReported ==
  (op = "validateAndProcessVariables" /\ Thrown(result)) =>
    LET vs      == doc.variables
        missing == {k \in 1..Len(vs) : MissingRequired(vs, input, k)}
    IN  /\ missing # {}
        /\ result.message = <<"Missing required variable: ">> \o vs[Min(missing)].name

\* y and x are both required and both missing: y, declared first, is named
C18_Witness ==
  /\ op = "validateAndProcessVariables"
  /\ doc.variables = <<Variable(<<"y">>, TRUE, Undefined),
                       Variable(<<"x">>, TRUE, Undefined)>>
  /\ input = EmptyObject
  /\ result = Throw("Error", <<"Missing required variable: ", "y">>)

\* C16: when validateAndProcessVariables fails because a required variable is
\* missing from the input, the error it raises is an OnePromptError.
C16_ResolverThrowsOnePromptError ==
  (op = "validateAndProcessVariables" /\ Thrown(result)) =>
    result.name = "OnePromptError"

(***************************************************************************)
(* The conditional processor and the validator on the same Document        *)
(***************************************************************************)
DirectiveShowP == Directive(<<"x">>, <<"a">>, <<"p">>, Undefined)

DirectiveShowPElseQ == Directive(<<"x">>, <<"a">>, <<"p">>, Some(<<"q">>))

CondPieces ==
  {<<"t">>,
   DirectiveShowP,
   DirectiveShowPElseQ,
   Directive(<<"x">>, <<"a">>, <<"r">>, Undefined),
   Directive(<<"x">>, <<"a">>, <<"p">>, Some(<<"r">>)),
   DirectiveText(<<"x">>, <<"b">>, <<"q">>, Some(<<"p">>), <<"\n", " ">>, << >>),
   LitOpen \o <<" ">> \o LitShow \o <<"p", Quote, " ">> \o LitClose}

CondParts ==
  {Part(<<"p">>, <<"P">>), Part(<<"p">>, << >>), Part(<<"q">>, DirectiveShowP)}

CondInputs ==
  {EmptyObject} \cup {[n \in {<<"x">>} |-> Some(v)] : v \in {<<"a">>, <<"b">>}}

InitCond ==
  /\ doc \in {Prompt(Some(<<"T">>), <<Variable(<<"x">>, TRUE, Undefined)>>, tp, ps) :
                tp \in TextsOf(CondPieces, MaxPieces),
                ps \in SeqsUpTo(CondParts, MaxParts)}
  /\ input \in CondInputs
  /\ Idle

NextCond == ProcessConditionals \/ Validate \/ Finish

SpecCond == InitCond /\ [][NextCond]_vars

\* the directives of T from left to right, as the directive pattern reads them
DirectivesOf(T) == DirectiveMatches(T, 1)

\* the part name a directive selects under the given values, if any
Selected(m, variables) ==
  IF m.var \in DOMAIN variables /\ variables[m.var] = Some(m.equals)
  THEN Some(m.show)
  ELSE m.else

\* what the specification says a directive is replaced by: nothing when no part
\* is selected or the selected part does not exist, else that part's content
ExpectedPart(m, variables, parts) ==
  LET sel == Selected(m, variables)
  IN  IF sel = Undefined \/ ~\E k \in 1..Len(parts) : parts[k].name = sel[1]
      THEN << >>
      ELSE parts[CHOOSE k \in 1..Len(parts) : parts[k].name = sel[1]].content

ExpectedConditionals(T, variables, parts) ==
  LET ms   == DirectivesOf(T)
      n    == Len(ms)
      gap(k) == SubSeq(T, IF k = 1 THEN 1 ELSE ms[k - 1].to + 1, ms[k].from - 1)
      rest == SubSeq(T, IF n = 0 THEN 1 ELSE ms[n].to + 1, Len(T))
  IN  Concat([k \in 1..n |-> gap(k) \o ExpectedPart(ms[k], variables, parts)]) \o rest

\* some directive of T selects a part name that no part bears
SelectsMissingPart(T, variables, parts) ==
  LET ms == DirectivesOf(T)
  IN  \E k \in 1..Len(ms) :
        LET sel == Selected(ms[k], variables)
        IN  sel # Undefined /\ ~\E j \in 1..Len(parts) : parts[j].name = sel[1]

\* C6: processConditionals replaces each directive by the content of its show part
\* when the value of its var equals its literal, by the content of its else part
\* when it differs and an else part is named, and by the empty string when it
\* differs and none is named (parts uniquely named, every selected part existing).
C6_ConditionalSelectsPart ==
  (/\ op = "processConditionals"
   /\ DistinctNames(doc.parts)
   /\ ~SelectsMissingPart(doc.template, input, doc.parts)) =>
    /\ Returned(result)
    /\ result.value = ExpectedConditionals(doc.template, input, doc.parts)

\* x is "b", not "a": the directive gave way to the content of its else part q
C6_Witness ==
  /\ op = "processConditionals"
  /\ doc.template = DirectiveShowPElseQ
  /\ doc.parts = <<Part(<<"p">>, <<"P">>), Part(<<"q">>, DirectiveShowP)>>
  /\ input = [n \in {<<"x">>} |-> Some(<<"b">>)]
  /\ result.value = DirectiveShowP

\* C7: when a directive selects a part name that no part bears, validate fails on
\* the Document, while processConditionals on the same template and parts returns
\* and puts the empty string in the place of that directive.
C7_StrictValidatePermissiveRender ==
  (DistinctNames(doc.parts) /\ SelectsMissingPart(doc.template, input, doc.parts)) =>
    /\ op = "validate" => Thrown(result)
    /\ op = "processConditionals" =>
         /\ Returned(result)
         /\ result.value = ExpectedConditionals(doc.template, input, doc.parts)

\* the else part r is selected and missing: the directive rendered as nothing
C7_Witness ==
  /\ op = "processConditionals"
  /\ doc.template = <<"t">> \o Directive(<<"x">>, <<"a">>, <<"p">>, Some(<<"r">>))
  /\ doc.parts = <<Part(<<"p">>, <<"P">>)>>
  /\ input = [n \in {<<"x">>} |-> Some(<<"b">>)]
  /\ result.value = <<"t">>

\* the text T with its directives ms, from left to right, each replaced by the
\* text r gives for it, and everything else kept
Woven(T, ms, r) ==
  LET n      == Len(ms)
      gap(k) == SubSeq(T, IF k = 1 THEN 1 ELSE ms[k - 1].to + 1, ms[k].from - 1)
      rest   == SubSeq(T, IF n = 0 THEN 1 ELSE ms[n].to + 1, Len(T))
  IN  Concat([k \in 1..n |-> gap(k) \o r[k]]) \o rest

\* the texts a directive may give way to: the content, as it stands, of a part
\* bearing the selected name; nothing when no name is selected or no part bears it
Insertable(m, variables, parts) ==
  LET sel == Selected(m, variables)
  IN  IF sel = Undefined \/ sel[1] \notin NamesOf(parts) THEN {<< >>}
      ELSE {parts[j].content : j \in {j \in 1..Len(parts) : parts[j].name = sel[1]}}

\* C20: processConditionals replaces all directives of the template in one pass
\* from left to right and keeps the text between and around them, in order; a
\* directive written in the content of an inserted part stays in the output as
\* it is and is not evaluated.
C20_SinglePassNotRecursive ==
  op = "processConditionals" =>
    LET ms == DirectivesOf(doc.template)
    IN  \E r \in [1..Len(ms) -> UNION {Insertable(ms[k], input, doc.parts) :
                                        k \in 1..Len(ms)}] :
          /\ \A k \in 1..Len(ms) : r[k] \in Insertable(ms[k], input, doc.parts)
          /\ result.value = Woven(doc.template, ms, r)

\* x is "b": the first directive gave way to part q, whose content is a
\* directive that would give way to nothing; it stands in the output, followed
\* by the text after the directive
C20_Witness ==
  /\ op = "processConditionals"
  /\ doc.template = DirectiveShowPElseQ \o <<"t">>
  /\ doc.parts = <<Part(<<"p">>, <<"P">>), Part(<<"q">>, DirectiveShowP)>>
  /\ input = [n \in {<<"x">>} |-> Some(<<"b">>)]
  /\ result.value = DirectiveShowP \o <<"t">>

(***************************************************************************)
(* The validator on its own                                                *)
(***************************************************************************)
InitValidate ==
  /\ doc \in Prompts
  /\ input = EmptyObject
  /\ Idle

NextValidate == Validate \/ Finish

SpecValidate == InitValidate /\ [][NextValidate]_vars

\* (1) the title is not empty
TitleGiven(d) == d.metadata.title # Undefined /\ d.metadata.title[1] # << >>

\* (2) every name the scanner extracts from the template is declared
UsedAreDeclared(d) ==
  LET used == extractTemplateVariables(d.template)
  IN  \A k \in 1..Len(used) : used[k] \in NamesOf(d.variables)

\* (3) every optional variable has a default
OptionalHaveDefault(d) ==
  \A k \in 1..Len(d.variables) :
    d.variables[k].required = FALSE => d.variables[k].default # Undefined

\* (4) the var of every directive is declared
DirectiveVarsDeclared(d) ==
  LET ms == DirectivesOf(d.template)
  IN  \A k \in 1..Len(ms) : ms[k].var \in NamesOf(d.variables)

\* (5) the show part and the else part, when given, of every directive exist
DirectivePartsExist(d) ==
  LET ms == DirectivesOf(d.template)
  IN  \A k \in 1..Len(ms) :
        /\ ms[k].show \in NamesOf(d.parts)
        /\ ms[k].else # Undefined => ms[k].else[1] \in NamesOf(d.parts)

WellFormed(d) ==
  /\ TitleGiven(d)
  /\ UsedAreDeclared(d)
  /\ OptionalHaveDefault(d)
  /\ DirectiveVarsDeclared(d)
  /\ DirectivePartsExist(d)

\* C3: validate succeeds exactly when the title is not empty, every name used in
\* the template is declared, every optional variable has a default, every
\* directive's var is declared and every directive's parts exist; a declared
\* variable that the template does not use is no failure.
C3_ValidateIffFiveConditions ==
  op = "validate" => (Returned(result) <=> WellFormed(doc))

\* a Document declaring y, which its template never uses, has passed validate
C3_Witness ==
  /\ op = "validate"
  /\ Returned(result)
  /\ doc.template = DirectiveShowPElseQ
  /\ doc.variables = <<Variable(<<"x">>, TRUE, Undefined),
                       Variable(<<"y">>, FALSE, Some(<< >>))>>

\* C13: every Document that validate accepts has a non-empty title, pairwise
\* distinct variable names and pairwise distinct part names.
C13_AcceptedHasUniqueNames ==
  (op = "validate" /\ Returned(result)) =>
    /\ TitleGiven(doc)
    /\ DistinctNames(doc.variables)
    /\ DistinctNames(doc.parts)

\* the number of the check a message of validate belongs to
CheckReported(message) ==
  CASE message[2] = "Title is required in metadata"                -> 1
    [] message[2] = "Variable \""                                   -> 2
    [] message[2] = "Optional variable \""                          -> 3
    [] message[2] = "Conditional references undefined variable \""  -> 4
    [] message[2] = "Conditional references undefined part \""      -> 5

\* the lowest-numbered check that the Document violates
LowestViolated(d) ==
  IF ~TitleGiven(d) THEN 1
  ELSE IF ~UsedAreDeclared(d) THEN 2
  ELSE IF ~OptionalHaveDefault(d) THEN 3
  ELSE IF ~DirectiveVarsDeclared(d) THEN 4
  ELSE 5

\* C17 as stated: validate reports the failure of the lowest-numbered violated
\* check, so an undeclared directive var anywhere in the template is reported
\* before any directive's missing part.
C17_LowestCheckReported ==
  (op = "validate" /\ Thrown(result)) =>
    CheckReported(result.message) = LowestViolated(doc)

\* what one directive fails on: its var, then its show part, then its else
\* part; << >> if it passes
DirectiveFailure(d, m) ==
  IF m.var \notin NamesOf(d.variables)
  THEN <<"Conditional references undefined variable \"">> \o m.var \o <<"\"">>
  ELSE IF m.show \notin NamesOf(d.parts)
  THEN <<"Conditional references undefined part \"">> \o m.show \o <<"\"">>
  ELSE IF m.else # Undefined /\ m.else[1] \notin NamesOf(d.parts)
  THEN <<"Conditional references undefined part \"">> \o m.else[1] \o <<"\"">>
  ELSE << >>

\* the first element of a sequence that satisfies Bad
FirstBad(xs, Bad(_)) == xs[Min({k \in 1..Len(xs) : Bad(xs[k])})]

\* the one failure a Document that is not well formed is to be reported with:
\* the title, then the first undeclared name the template uses, then the first
\* optional variable without default, then the first failure of the first
\* directive, from left to right, that has one
ExpectedFailure(d) ==
  IF ~TitleGiven(d) THEN <<"Title is required in metadata">>
  ELSE IF ~UsedAreDeclared(d)
  THEN <<"Variable \"">>
         \o FirstBad(extractTemplateVariables(d.template),
                     LAMBDA n : n \notin NamesOf(d.variables))
         \o <<"\" used in template but not declared">>
  ELSE IF ~OptionalHaveDefault(d)
  THEN <<"Optional variable \"">>
         \o FirstBad(d.variables,
                     LAMBDA v : ~v.required /\ v.default = Undefined).name
         \o <<"\" must have a default value">>
  ELSE DirectiveFailure(d, FirstBad(DirectivesOf(d.template),
                                    LAMBDA m : DirectiveFailure(d, m) # << >>))

\* C17, amended: validate reports one failure only, the first it meets when it
\* checks the title, then the names the template uses, then the defaults of
\* the optional variables, then the directives from left to right, each for
\* its var, its show part and its else part before the next directive.
C17_FirstFailureReported ==
  (op = "validate" /\ Thrown(result)) =>
    result.message = <<"Validation failed: ">> \o ExpectedFailure(doc)

\* the first directive names the missing part p, the second the undeclared
\* variable y: the missing part is what validate reports
C17_Witness ==
  /\ op = "validate"
  /\ doc.metadata.title = Some(<<"T">>)
  /\ doc.variables = <<Variable(<<"x">>, TRUE, Undefined)>>
  /\ doc.template = DirectiveShowP \o Directive(<<"y">>, <<"a">>, <<"q">>, Some(<<"r">>))
  /\ doc.parts = << >>
  /\ result = Throw("OnePromptError",
                    <<"Validation failed: ",
                      "Conditional references undefined part \"", "p", "\"">>)

(***************************************************************************)
(* The facade: validate, parseFromXml, convertToXml and renderWithVariables *)
(* called on the caller's Document, or on a markup text                    *)
(***************************************************************************)
\* the decoded tree of the markup text that writes the Document d down; an
\* element without text has no text entry in the tree
TreeOf(d) ==
  [metadata  |-> Some([title |-> d.metadata.title]),
   variables |-> [k \in 1..Len(d.variables) |->
                    [name     |-> d.variables[k].name,
                     required |-> IF d.variables[k].required THEN "true" ELSE "false",
                     text     |-> IF d.variables[k].default = Some(<< >>)
                                  THEN Undefined
                                  ELSE d.variables[k].default]],
   part      |-> [k \in 1..Len(d.parts) |->
                    [name |-> d.parts[k].name,
                     text |-> IF d.parts[k].content = << >> THEN Undefined
                              ELSE Some(d.parts[k].content)]],
   template  |-> d.template]

\* a markup text of the Document d
MarkupOf(d) == [decoded |-> Return(TreeOf(d))]

\* a markup text without a metadata element, such as "<invalid>"
Malformed ==
  [decoded |-> Return([metadata |-> Undefined, variables |-> << >>,
                       part |-> << >>, template |-> << >>])]

\* the markup text a call is given, by the kind of its source
TextOf(src) == IF src = "malformed" THEN Malformed ELSE MarkupOf(doc)

\* OnePrompt.convertToXml(doc)
ConvertToXml == Call("convertToXml", "prompt", convertToXml(doc))

\* OnePrompt.parseFromXml(xml)
ParseFromXml ==
  \E src \in {"markup", "malformed"} :
    Call("parseFromXml", src, parseFromXml(TextOf(src)))

\* the caller hands the markup text that convertToXml returned to parseFromXml
ParseBuilt ==
  /\ op = "convertToXml" /\ pc = "done" /\ Returned(result)
  /\ op' = "parseFromXml"
  /\ source' = "built"
  /\ result' = parseFromXml(result.value)
  /\ UNCHANGED <<doc, input, pc, prompt, processedVars, processedTemplate,
                 validated>>
  /\ UNCHANGED <<calls, lastIndex>>

\* the catch block that lets an error that is an OnePromptError already pass
RenderCatch_rethrow(error) ==
  /\ result' = IF error.name = "OnePromptError" THEN error
               ELSE OnePromptError("Render failed: ", error)
  /\ pc' = "done"

\* the catch block of renderWithVariables
RenderCatch(error) ==
  /\ result' = OnePromptError("Render failed: ", error)
  /\ pc' = "done"

\* line 460, source being a string: r is what this.parseFromXml(source) gave
RenderParsed(r) ==
  IF Thrown(r)
  THEN RenderCatch(r) /\ UNCHANGED prompt
  ELSE /\ prompt' = Some(r.value)
       /\ pc' = "validate"
       /\ UNCHANGED result

\* renderWithVariables, line 460: const prompt = typeof source === "string" ?
\* this.parseFromXml(source) : source
RenderStart ==
  /\ op = "idle"
  /\ op' = "renderWithVariables"
  /\ \E src \in {"prompt", "markup", "malformed"} :
       /\ source' = src
       /\ IF src = "prompt"
          THEN /\ prompt' = Some(doc)
               /\ pc' = "validate"
               /\ UNCHANGED result
          ELSE RenderParsed(parseFromXml(TextOf(src)))
  /\ UNCHANGED <<doc, input, processedVars, processedTemplate, validated>>
  /\ UNCHANGED <<calls, lastIndex>>

RenderValidated(r) ==
  IF Thrown(r)
  THEN RenderCatch(r) /\ UNCHANGED validated
  ELSE /\ validated' = TRUE
       /\ pc' = "resolve"
       /\ UNCHANGED result

\* line 462: this.validate(prompt)
RenderValidate ==
  /\ op = "renderWithVariables" /\ pc = "validate"
  /\ RenderValidated(validate(prompt[1]))
  /\ UNCHANGED <<doc, input, op, source, prompt, processedVars, processedTemplate>>
  /\ UNCHANGED <<calls, lastIndex>>

\* the step that also writes the resolved values into the caller's mapping
RenderResolved_writesInput(r) ==
  IF Thrown(r)
  THEN RenderCatch(r) /\ UNCHANGED <<processedVars, input>>
  ELSE /\ processedVars' = Some(r.value)
       /\ input' = r.value
       /\ pc' = "conditionals"
       /\ UNCHANGED result

\* lines 464-467, r being what validateAndProcessVariables gave: processed is a
\* new object, the caller's mapping is only read
RenderResolved(r) ==
  IF Thrown(r)
  THEN RenderCatch(r) /\ UNCHANGED <<processedVars, input>>
  ELSE /\ processedVars' = Some(r.value)
       /\ pc' = "conditionals"
       /\ UNCHANGED <<result, input>>

\* lines 464-467: const processedVars = validateAndProcessVariables(...)
RenderResolve ==
  /\ op = "renderWithVariables" /\ pc = "resolve"
  /\ RenderResolved(validateAndProcessVariables(prompt[1].variables, input))
  /\ UNCHANGED <<doc, op, source, prompt, processedTemplate, validated>>
  /\ UNCHANGED <<calls, lastIndex>>

\* lines 470-474: processConditionals(prompt.template.trim(), processedVars, parts)
RenderConditionals ==
  /\ op = "renderWithVariables" /\ pc = "conditionals"
  /\ processedTemplate' =
       Some(processConditionals(trim(prompt[1].template), processedVars[1],
                                prompt[1].parts))
  /\ pc' = "substitute"
  /\ UNCHANGED <<doc, input, op, source, prompt, processedVars, validated, result>>
  /\ UNCHANGED <<calls, lastIndex>>

\* the step that substitutes from the caller's mapping, not from processedVars
RenderSubstitute_rawInput ==
  /\ op = "renderWithVariables" /\ pc = "substitute"
  /\ result' = Return(substituteTemplateVariables(processedTemplate[1], input))
  /\ pc' = "done"
  /\ UNCHANGED <<doc, input, op, source, prompt, processedVars, processedTemplate,
                 validated>>
  /\ UNCHANGED <<calls, lastIndex>>

\* the two passes in the other order: the tokens of the template replaced first,
\* the directives after
RenderSubstitute_beforeConditionals ==
  /\ op = "renderWithVariables" /\ pc = "substitute"
  /\ result' = Return(processConditionals(
                         substituteTemplateVariables(trim(prompt[1].template),
                                                     processedVars[1]),
                         processedVars[1], prompt[1].parts))
  /\ pc' = "done"
  /\ UNCHANGED <<doc, input, op, source, prompt, processedVars, processedTemplate,
                 validated>>
  /\ UNCHANGED <<calls, lastIndex>>

\* lines 477-480: return substituteTemplateVariables(processedTemplate, processedVars)
RenderSubstitute ==
  /\ op = "renderWithVariables" /\ pc = "substitute"
  /\ result' = Return(substituteTemplateVariables(processedTemplate[1],
                                                  processedVars[1]))
  /\ pc' = "done"
  /\ UNCHANGED <<doc, input, op, source, prompt, processedVars, processedTemplate,
                 validated>>
  /\ UNCHANGED <<calls, lastIndex>>

FacadeChoices ==
  {Variable(<<"x">>, TRUE, Undefined),
   Variable(<<"x">>, FALSE, Some(<<"a">>)),
   Variable(<<"y">>, FALSE, Some(<< >>))}

FacadeTemplates ==
  {<<" ">> \o TokenX \o <<" ">> \o TokenY \o <<"\n">>,
   DirectiveShowPElseQ \o TokenX,
   Directive(<<"x">>, <<"b">>, <<"q">>, Undefined) \o <<"\n">>,
   Directive(<<"y">>, <<"a">>, <<"q">>, Some(<<"r">>)),
   <<"t">>}

FacadePrompts ==
  {Prompt(t, vs, tp, ps) :
     t \in Titles, vs \in SeqsUpTo(FacadeChoices, MaxVars),
     tp \in FacadeTemplates, ps \in SeqsUpTo(PartChoices, MaxParts)}

Init ==
  /\ doc \in FacadePrompts
  /\ input \in CondInputs
  /\ Idle

Next ==
  \/ Validate
  \/ ParseFromXml
  \/ ConvertToXml
  \/ ParseBuilt
  \/ RenderStart
  \/ RenderValidate
  \/ RenderResolve
  \/ RenderConditionals
  \/ RenderSubstitute
  \/ Finish

Spec == Init /\ [][Next]_vars

(***************************************************************************)
(* Properties of the facade                                                *)
(***************************************************************************)
\* the Document a call works on: the caller's own, or the one parsed from the
\* markup text the caller passed
Document == IF source = "prompt" THEN doc ELSE promptOfData(TreeOf(doc))

\* substitute(processConditionals(trim(d.template), R, d.parts), R) for the
\* resolved mapping R
Pipeline(d, R) ==
  substituteTemplateVariables(processConditionals(trim(d.template), R, d.parts), R)

\* C1: whenever renderWithVariables succeeds, the returned text equals
\* substitute(processConditionals(trim(template), R, parts), R), where R is what the
\* resolver returns for the Document's variables and the input, and validate has
\* passed on that Document before the text was produced.
C1_RenderIsPipeline ==
  (op = "renderWithVariables" /\ pc = "done" /\ Returned(result)) =>
    /\ validated
    /\ prompt = Some(Document)
    /\ Returned(validate(Document))
    /\ Returned(validateAndProcessVariables(Document.variables, input))
    /\ result.value =
         Pipeline(Document, validateAndProcessVariables(Document.variables, input).value)

\* a render of the caller's Document where the default of x selects part p and
\* fills the token that follows the directive
C1_Witness ==
  /\ op = "renderWithVariables" /\ pc = "done" /\ source = "prompt"
  /\ doc.variables = <<Variable(<<"x">>, FALSE, Some(<<"a">>))>>
  /\ doc.template = DirectiveShowPElseQ \o TokenX
  /\ input = EmptyObject
  /\ result = Return(<<"P", "a">>)

\* C2: validation gates the facade: for a Document that validate rejects,
\* renderWithVariables returns no text, convertToXml returns no markup and
\* parseFromXml returns no Document; each of them fails instead.
C2_ValidationGates ==
  (/\ pc = "done"
   /\ op \in {"renderWithVariables", "convertToXml", "parseFromXml"}
   /\ source # "malformed"
   /\ Thrown(validate(Document))) => Thrown(result)

\* convertToXml has failed on a titled Document whose directive names a part
\* that does not exist
C2_Witness ==
  /\ op = "convertToXml" /\ pc = "done"
  /\ doc.metadata.title = Some(<<"T">>)
  /\ doc.variables = <<Variable(<<"x">>, TRUE, Undefined)>>
  /\ doc.template = DirectiveShowPElseQ \o TokenX
  /\ doc.parts = << >>
  /\ Thrown(result)

\* the prefix that the catch block of an operation puts before the message
PrefixOf(o) ==
  CASE o = "validate"            -> "Validation failed: "
    [] o = "parseFromXml"        -> "Parse failed: "
    [] o = "convertToXml"        -> "Conversion to XML failed: "
    [] o = "renderWithVariables" -> "Render failed: "

\* the message of the error first thrown in a failing call
RootCause ==
  IF source = "malformed"
  THEN <<"Cannot read properties of undefined (reading 'title')">>
  ELSE IF Thrown(validateChecks(Document))
  THEN validateChecks(Document).message
  ELSE validateAndProcessVariables(Document.variables, input).message

EndsWith(m, tail) ==
  /\ Len(m) >= Len(tail)
  /\ SubSeq(m, Len(m) - Len(tail) + 1, Len(m)) = tail

C10_ArgumentsUnchanged ==
  [][(op' \in {"validate", "renderWithVariables"}
        \/ op \in {"validate", "renderWithVariables"})
       => (doc' = doc /\ input' = input)]_vars

\* a render has succeeded with a resolved mapping that differs from the input:
\* a default was filled in
C10_Witness ==
  /\ op = "renderWithVariables" /\ pc = "done"
  /\ Returned(result)
  /\ processedVars # Some(input)
  /\ input = EmptyObject

(***************************************************************************)
(* The round trip through the markup                                       *)
(***************************************************************************)
\* C11: for every Document that passes validate, parseFromXml applied to the
\* text convertToXml returned succeeds and yields an equal Document: same title,
\* same variables (name, required, default), same parts and same template.
C11_RoundTrip ==
  (op = "parseFromXml" /\ source = "built" /\ pc = "done") => result = Return(doc)

\* C15: the markup text convertToXml returns for a Document that passes
\* validate begins with an XML prolog line, followed by the metadata, variables,
\* part and template elements.
C15_PrologFirst ==
  (op = "convertToXml" /\ pc = "done" /\ Returned(result)) =>
    /\ HasProlog(result.value)
    /\ {"metadata", "variables", "part", "template"} \subseteq DOMAIN result.value.built

(***************************************************************************)
(* How often a failure is wrapped                                          *)
(***************************************************************************)
\* C19 as stated: the message of an error escaping a facade operation is one
\* operation prefix, immediately followed by the root-cause message.
C19_WrappedOnce ==
  (/\ pc = "done"
   /\ op \in {"validate", "parseFromXml", "convertToXml", "renderWithVariables"}
   /\ Thrown(result)) =>
    result.message = <<PrefixOf(op)>> \o RootCause

\* the failure arose in the try block of validate
FailedInValidate == source # "malformed" /\ Thrown(validateChecks(Document))

\* the prefixes of the facade operations, nested in the invoked one, that the
\* failure passed through: parseFromXml when renderWithVariables was given a
\* markup text that fails to parse or validate, and validate
NestedPrefixes ==
  (IF op = "renderWithVariables" /\ source # "prompt"
        /\ (source = "malformed" \/ FailedInValidate)
   THEN <<"Parse failed: ">> ELSE << >>)
  \o (IF op # "validate" /\ FailedInValidate
      THEN <<"Validation failed: ">> ELSE << >>)

\* C19, amended: a failure is wrapped once by every facade operation it passes
\* through: the message is the prefix of the operation invoked, then the prefix
\* of each nested facade operation the failure arose in, then the root cause.
C19_WrappedPerOperation ==
  (/\ pc = "done"
   /\ op \in {"validate", "parseFromXml", "convertToXml", "renderWithVariables"}
   /\ Thrown(result)) =>
    result.message = <<PrefixOf(op)>> \o NestedPrefixes \o RootCause

\* a render of a markup text whose Document has no title: three prefixes
C19_Witness ==
  /\ op = "renderWithVariables" /\ pc = "done" /\ source = "markup"
  /\ result = Throw("OnePromptError",
                    <<"Render failed: ", "Parse failed: ", "Validation failed: ",
                      "Title is required in metadata">>)

(***************************************************************************)
(* Concurrent calls of validate and renderWithVariables.  Each call has   *)
(* its arguments and its locals; a call advances by one statement, or one  *)
(* turn of the loop over the directives, at a time, and the steps of the   *)
(* calls interleave in any order.                                          *)
(***************************************************************************)
\* validate, lines 282-303: the statements before the loop over the directives
validateBeforeLoop(p) ==
  IF Falsy(p.metadata.title)
  THEN Error(<<"Title is required in metadata">>)
  ELSE IF \E k \in 1..Len(extractTemplateVariables(p.template)) :
            ~IsDeclared(p.variables, extractTemplateVariables(p.template)[k])
  THEN Error(<<"Variable \"">>
               \o Head(SelectSeq(extractTemplateVariables(p.template),
                                 LAMBDA n : ~IsDeclared(p.variables, n)))
               \o <<"\" used in template but not declared">>)
  ELSE IF WithoutDefault(p) # << >>
  THEN Error(<<"Optional variable \"">> \o Head(WithoutDefault(p)).name
               \o <<"\" must have a default value">>)
  ELSE Return(Undefined)

\* renderWithVariables, lines 470-480, r being what the resolver returned
renderResolved(p, r) ==
  Return(substituteTemplateVariables(
           processConditionals(trim(p.template), r.value, p.parts), r.value))

\* renderWithVariables, lines 464-480
renderValidated(p, r) == Then(r, renderResolved(p, r))

\* OnePrompt.renderWithVariables(source, variables), source being a Prompt
renderWithVariables(p, variables) ==
  Catch("Render failed: ",
        Then(validate(p),
             renderValidated(p, validateAndProcessVariables(p.variables, variables))))

Callers == {"a", "b"}

\* all calls using one regex object, as if conditionalRegex were a static member
conditionalRegexOf_shared(c) == "a"

\* lines 307-308: const conditionalRegex = /.../g makes a regex object of its
\* own in every call
conditionalRegexOf(c) == c

NewCall(o, p) ==
  [op |-> o, prompt |-> p, pc |-> "start", processedVars |-> Undefined,
   processedTemplate |-> Undefined, result |-> NoResult]

\* the call c ends with the result r
ConcDone(c, r) == calls' = [calls EXCEPT ![c].pc = "done", ![c].result = r]

\* the call c goes on at the position next
ConcGoto(c, next) == calls' = [calls EXCEPT ![c].pc = next]

\* an error thrown in the try block of validate, after the catch blocks it
\* passes through: that of validate and, in a render, that of renderWithVariables
ConcCaught(c, error) ==
  IF calls[c].op = "validate"
  THEN OnePromptError("Validation failed: ", error)
  ELSE OnePromptError("Render failed: ",
                      OnePromptError("Validation failed: ", error))

ConcBeforeLoopGave(c, r) ==
  IF Thrown(r)
  THEN ConcDone(c, ConcCaught(c, r)) /\ UNCHANGED lastIndex
  ELSE /\ ConcGoto(c, "exec")
       /\ lastIndex' = [lastIndex EXCEPT ![conditionalRegexOf(c)] = 0]

\* validate, lines 282-308
ConcBeforeLoop(c) ==
  /\ calls[c].pc = "start"
  /\ ConcBeforeLoopGave(c, validateBeforeLoop(calls[c].prompt))
  /\ UNCHANGED <<doc, input, op, source, pc, prompt, processedVars,
                 processedTemplate, validated, result>>

\* lines 312-330: the checks of the directive matched, r being what they gave
ConcDirectiveGave(c, r) ==
  IF Thrown(r) THEN ConcDone(c, ConcCaught(c, r)) ELSE UNCHANGED calls

\* exec found the match m: lastIndex is set to its end
ConcMatched(c, m) ==
  /\ lastIndex' = [lastIndex EXCEPT ![conditionalRegexOf(c)] = m.to]
  /\ ConcDirectiveGave(c, validateConditionalsFrom(calls[c].prompt, <<m>>, 1))

\* exec searched from lastIndex and found the next match at j, or none (j = 0):
\* then it sets lastIndex to 0, the loop ends and validate returns
ConcExecFound(c, j) ==
  IF j = 0
  THEN /\ lastIndex' = [lastIndex EXCEPT ![conditionalRegexOf(c)] = 0]
       /\ IF calls[c].op = "validate"
          THEN ConcDone(c, Return(Undefined))
          ELSE ConcGoto(c, "resolve")
  ELSE ConcMatched(c, DirectiveAt(calls[c].prompt.template, j))

\* validate, line 311: one turn of while ((match = conditionalRegex.exec(...)))
ConcExec(c) ==
  /\ calls[c].pc = "exec"
  /\ ConcExecFound(c, DirectiveStart(calls[c].prompt.template,
                                     lastIndex[conditionalRegexOf(c)] + 1))
  /\ UNCHANGED <<doc, input, op, source, pc, prompt, processedVars,
                 processedTemplate, validated, result>>

ConcResolveGave(c, r) ==
  IF Thrown(r)
  THEN ConcDone(c, OnePromptError("Render failed: ", r))
  ELSE calls' = [calls EXCEPT ![c].pc = "conditionals",
                              ![c].processedVars = Some(r.value)]

\* renderWithVariables, lines 464-467
ConcResolve(c) ==
  /\ calls[c].pc = "resolve"
  /\ ConcResolveGave(c, validateAndProcessVariables(calls[c].prompt.variables, input))
  /\ UNCHANGED <<doc, input, op, source, pc, prompt, processedVars,
                 processedTemplate, validated, result, lastIndex>>

\* renderWithVariables, lines 470-474
ConcConditionals(c) ==
  /\ calls[c].pc = "conditionals"
  /\ calls' = [calls EXCEPT
                 ![c].pc = "substitute",
                 ![c].processedTemplate =
                    Some(processConditionals(trim(calls[c].prompt.template),
                                             calls[c].processedVars[1],
                                             calls[c].prompt.parts))]
  /\ UNCHANGED <<doc, input, op, source, pc, prompt, processedVars,
                 processedTemplate, validated, result, lastIndex>>

\* renderWithVariables, lines 477-480
ConcSubstitute(c) ==
  /\ calls[c].pc = "substitute"
  /\ ConcDone(c, Return(substituteTemplateVariables(calls[c].processedTemplate[1],
                                                    calls[c].processedVars[1])))
  /\ UNCHANGED <<doc, input, op, source, pc, prompt, processedVars,
                 processedTemplate, validated, result, lastIndex>>

\* the Documents of the concurrent calls: one that renders, the same without
\* its parts, one whose only variable is required, one without a title
ConcPrompts ==
  {Prompt(Some(<<"T">>), <<Variable(<<"x">>, FALSE, Some(<<"a">>))>>,
          DirectiveShowPElseQ \o TokenX,
          <<Part(<<"p">>, <<"P">>), Part(<<"q">>, TokenX)>>),
   Prompt(Some(<<"T">>), <<Variable(<<"x">>, FALSE, Some(<<"a">>))>>,
          DirectiveShowPElseQ \o TokenX, << >>),
   Prompt(Some(<<"T">>), <<Variable(<<"x">>, TRUE, Undefined)>>,
          DirectiveShowP \o DirectiveShowPElseQ,
          <<Part(<<"p">>, <<"P">>), Part(<<"q">>, <<"Q">>)>>),
   Prompt(Some(<< >>), << >>, TokenX, << >>)}

ConcInputs == {EmptyObject, [n \in {<<"x">>} |-> Some(<<"b">>)]}

\* call a is given the caller's Document, call b the same or another one; both
\* are given the caller's input mapping
InitConc ==
  /\ doc \in ConcPrompts
  /\ input \in ConcInputs
  /\ NoCall
  /\ calls \in {f \in [Callers -> {NewCall(o, p) :
                                    o \in {"validate", "renderWithVariables"},
                                    p \in ConcPrompts}] : f["a"].prompt = doc}
  /\ lastIndex = [c \in Callers |-> 0]

NextConc ==
  \E c \in Callers :
    \/ ConcBeforeLoop(c)
    \/ ConcExec(c)
    \/ ConcResolve(c)
    \/ ConcConditionals(c)
    \/ ConcSubstitute(c)

SpecConc == InitConc /\ [][NextConc]_vars

\* what a call gives when it runs alone, from its first statement to its last
Alone(call) ==
  IF call.op = "validate" THEN validate(call.prompt)
  ELSE renderWithVariables(call.prompt, input)

\* C14: in any interleaving of concurrent validate and renderWithVariables
\* calls, on the same Document or on different ones, each call ends with the
\* result, returned value or error, that it gives when it runs alone.
C14_SameResultAsAlone ==
  \A c \in DOMAIN calls :
    calls[c].pc = "done" => calls[c].result = Alone(calls[c])

\* two calls on the same Document have ended: the validate has failed on the
\* missing part, the render has failed on it too, each with its own prefixes
C14_Witness ==
  /\ DOMAIN calls = Callers
  /\ calls["a"].prompt = calls["b"].prompt
  /\ calls["a"].prompt.parts = << >>
  /\ calls["a"].op = "validate" /\ calls["b"].op = "renderWithVariables"
  /\ calls["a"].pc = "done" /\ calls["b"].pc = "done"
  /\ calls["a"].result.message[1] = "Validation failed: "
  /\ calls["b"].result.message[2] = "Validation failed: "

(***************************************************************************)
(* The validator and the two passes of a render                            *)
(***************************************************************************)
\* what the directive pattern captured in each directive of T, from left to right
CapturesOf(T) ==
  [k \in 1..Len(DirectivesOf(T)) |->
     [var    |-> DirectivesOf(T)[k].var,  equals |-> DirectivesOf(T)[k].equals,
      show   |-> DirectivesOf(T)[k].show, else   |-> DirectivesOf(T)[k].else]]

\* the contents of the parts of the given name
ContentsOf(parts, name) ==
  {parts[j].content : j \in {j \in 1..Len(parts) : parts[j].name = name}}

\* the text T with each of its directives replaced by the content of a part
\* that exists and bears the name the directive selects under the values R, or
\* by nothing when it selects no name; no text when a selected part is missing
WovenWithExisting(T, R, parts) ==
  LET ms == DirectivesOf(T)
      texts(k) == IF Selected(ms[k], R) = Undefined THEN {<< >>}
                  ELSE ContentsOf(parts, Selected(ms[k], R)[1])
  IN  {Woven(T, ms, r) :
         r \in {r \in [1..Len(ms) -> UNION {texts(k) : k \in 1..Len(ms)}] :
                  \A k \in 1..Len(ms) : r[k] \in texts(k)}}

\* C21: the validator and the conditional processor read the same directives,
\* so in a render of a Document that validate accepts every directive's var has
\* a resolved value and every directive is replaced by the content of a part
\* that exists, or by the empty string when the value differs from the literal
\* and no else part is named; the fallback for a missing part is never taken.
C21_NoMissingPartInRender ==
  (/\ op = "renderWithVariables"
   /\ IsDefined(processedTemplate)
   /\ Returned(validate(prompt[1]))) =>
    /\ CapturesOf(trim(prompt[1].template)) = CapturesOf(prompt[1].template)
    /\ \A k \in 1..Len(DirectivesOf(prompt[1].template)) :
         LET m == DirectivesOf(prompt[1].template)[k]
         IN  /\ m.var \in DOMAIN processedVars[1]
             /\ IsDefined(processedVars[1][m.var])
             /\ Selected(m, processedVars[1]) = Undefined
                  <=> (processedVars[1][m.var] # Some(m.equals) /\ m.else = Undefined)
             /\ IsDefined(Selected(m, processedVars[1]))
                  => HasPart(prompt[1].parts, Selected(m, processedVars[1])[1])
    /\ processedTemplate[1] \in
         WovenWithExisting(trim(prompt[1].template), processedVars[1], prompt[1].parts)

\* x is "b", not "a": the directive gave way to the content of the else part q,
\* a token, and the text was rendered from it
C21_Witness ==
  /\ op = "renderWithVariables" /\ pc = "done" /\ source = "prompt"
  /\ doc.template = DirectiveShowPElseQ \o TokenX
  /\ doc.parts = <<Part(<<"p">>, <<"P">>), Part(<<"q">>, TokenX)>>
  /\ input = [n \in {<<"x">>} |-> Some(<<"b">>)]
  /\ processedTemplate = Some(TokenX \o TokenX)
  /\ result = Return(<<"b", "b">>)

(***************************************************************************)
(* Renders of Documents whose parts hold tokens, with input values that    *)
(* hold token text and directive text                                      *)
(***************************************************************************)
TokenZ == <<"{", "{", "z", "}", "}">>

\* x alone; x required and y with a default; x and y optional, the default of
\* y empty
RenderVariables ==
  {<<Variable(<<"x">>, TRUE, Undefined)>>,
   <<Variable(<<"x">>, TRUE, Undefined), Variable(<<"y">>, FALSE, Some(<<"c">>))>>,
   <<Variable(<<"x">>, FALSE, Some(<<"a">>)), Variable(<<"y">>, FALSE, Some(<< >>))>>}

RenderTemplates ==
  {DirectiveShowPElseQ \o <<" ">> \o TokenX,
   TokenY \o DirectiveShowP,
   <<" ">> \o DirectiveShowPElseQ \o <<"\n">>}

\* the contents of the parts: plain text, a token of x, of y, which some
\* Documents declare, and of z, which none declares
RenderContents == {<<"P">>, TokenX, TokenY, TokenZ}

RenderPrompts ==
  {Prompt(Some(<<"T">>), vs, tp, <<Part(<<"p">>, cp), Part(<<"q">>, cq)>>) :
     vs \in RenderVariables, tp \in RenderTemplates,
     cp \in RenderContents, cq \in RenderContents}

\* the input mappings: x absent, selecting p, selecting q, holding the text of a
\* token and of a directive, given with a value for the undeclared z, and
\* holding the text of its own token while y is given
RenderInputs ==
  {EmptyObject,
   [n \in {<<"x">>} |-> Some(<<"a">>)],
   [n \in {<<"x">>} |-> Some(<<"b">>)],
   [n \in {<<"x">>} |-> Some(TokenY \o DirectiveShowP)],
   [n \in {<<"x">>, <<"z">>} |-> Some(<<"a">>)],
   [n \in {<<"x">>, <<"y">>} |-> IF n = <<"x">> THEN Some(TokenX) ELSE Some(<<"d">>)]}

InitRender ==
  /\ doc \in RenderPrompts
  /\ input \in RenderInputs
  /\ Idle

NextRender ==
  \/ Validate
  \/ RenderStart
  \/ RenderValidate
  \/ RenderResolve
  \/ RenderConditionals
  \/ RenderSubstitute
  \/ Finish

SpecRender == InitRender /\ [][NextRender]_vars

\* the Document d with the content of every part taken away
WithoutContents(d) ==
  [d EXCEPT !.parts = [k \in 1..Len(d.parts) |-> Part(d.parts[k].name, << >>)]]

\* the template body of d with the content of the part each directive selects
\* under the values R written in the place of that directive
Inlined(d, R) == ExpectedConditionals(trim(d.template), R, d.parts)

\* C22: conditionals being processed before substitution, a token in the content
\* of a part that a directive selects is substituted as if it were written in
\* the template body in the place of the directive: replaced when it names a
\* declared variable whose resolved value is not empty, left as it is otherwise;
\* and validate gives the same outcome whatever the contents of the parts.
C22_PartTokensLikeBodyTokens ==
  /\ (op = "renderWithVariables" /\ pc = "done" /\ Returned(result)) =>
       /\ DOMAIN processedVars[1] = NamesOf(prompt[1].variables)
       /\ result.value =
            ExpectedSubstitution(Inlined(prompt[1], processedVars[1]), processedVars[1])
  /\ (op = "validate" /\ pc = "done") => result = validate(WithoutContents(doc))

\* x is "b": the directive gave way to part q, whose token of x was replaced like
\* the token of x in the body, although part p holds a token of the undeclared z
C22_Witness ==
  /\ op = "renderWithVariables" /\ pc = "done" /\ source = "prompt"
  /\ doc.template = DirectiveShowPElseQ \o <<" ">> \o TokenX
  /\ doc.parts = <<Part(<<"p">>, TokenZ), Part(<<"q">>, TokenX)>>
  /\ input = [n \in {<<"x">>} |-> Some(<<"b">>)]
  /\ result = Return(<<"b", " ", "b">>)

\* the values R with every value that no directive of T compares equal to its
\* own variable replaced by the empty string
OnlyEquality(T, R) ==
  [n \in DOMAIN R |->
     IF \E k \in 1..Len(DirectivesOf(T)) :
          DirectivesOf(T)[k].var = n /\ R[n] = Some(DirectivesOf(T)[k].equals)
     THEN R[n] ELSE Some(<< >>)]

\* a value of R holds the text of a token or of a directive
HoldsMarkup(R) ==
  \E n \in DOMAIN R :
    IsDefined(R[n]) /\ (TokensOf(R[n][1]) # {} \/ DirectivesOf(R[n][1]) # << >>)

\* C23: substitution is literal and in one pass: in a render, every token of the
\* text the conditional pass left is replaced by its resolved value as it
\* stands, also when the value holds the text of a token or of a directive,
\* which is neither substituted again nor evaluated; and the text the
\* conditional pass leaves depends on the values only through the equality
\* test of each directive on its own variable.
C23_ValuesInsertedVerbatim ==
  (op = "renderWithVariables" /\ pc = "done" /\ Returned(result)) =>
    /\ result.value = ExpectedSubstitution(processedTemplate[1], processedVars[1])
    /\ processedTemplate[1] =
         processConditionals(trim(prompt[1].template),
                             OnlyEquality(trim(prompt[1].template), processedVars[1]),
                             prompt[1].parts)

\* the value of x is the text of a token of y followed by a directive, and y
\* resolves to "c": the directive of the template gave way to part q, and the
\* token of x to the value as it stands
C23_Witness ==
  /\ op = "renderWithVariables" /\ pc = "done" /\ source = "prompt"
  /\ doc.variables = <<Variable(<<"x">>, TRUE, Undefined),
                       Variable(<<"y">>, FALSE, Some(<<"c">>))>>
  /\ doc.template = DirectiveShowPElseQ \o <<" ">> \o TokenX
  /\ doc.parts = <<Part(<<"p">>, <<"P">>), Part(<<"q">>, TokenY)>>
  /\ input = [n \in {<<"x">>} |-> Some(TokenY \o DirectiveShowP)]
  /\ HoldsMarkup(processedVars[1])
  /\ result = Return(<<"c", " ">> \o TokenY \o DirectiveShowP)

====
